---- MODULE Spec2Model ----
(***************************************************************************)
(* Model of infobot.py: the run log kept in the users / run_groups / runs   *)
(* tables, the POST handler that opens and closes runs, the per-group       *)
(* statistics (get_stats) and the weekly leaderboard.                       *)
(*                                                                          *)
(* Game names and run types are sequences of one-character strings, so      *)
(* that lower-casing and the two regular expressions are computed and not   *)
(* assumed.  Time is counted in ticks; TicksPerSec ticks make one second    *)
(* (now() has sub-second resolution, mkdt drops the fraction).  Every       *)
(* request that calls now() is served at a later tick than the one before.  *)
(* Division is Python 2 integer division (the module uses len(filter(...))  *)
(* and slices of filter(...), which exist only there).                      *)
(***************************************************************************)
EXTENDS Integers, Sequences, FiniteSets, TLC

VARIABLES users, run_groups, runs, clock, response

vars == <<users, run_groups, runs, clock, response>>

\* Python's None / SQL NULL, for a timestamp or a duration.
None == -1

----------------------------------------------------------------------------
\* Bounds of the model.

\* ticks per second of the clock
TicksPerSec == 2
\* Spec: rows of the runs table, and the last tick a request is served at
MaxRuns == 3
MaxClock == 5
\* SpecTrim: rows of the runs table
TrimRuns == 11
\* SpecType: length of a game name
MaxNameLen == 3

----------------------------------------------------------------------------
\* Configuration (infobot.py 22-40).

COMMON_TOKENS ==
    << <<"m","e","p","h">>, <<"t","r","a","v">>, <<"b","a","a","l">>,
       <<"m","f">>, <<"c","h","a","o","s">>, <<"p","i","n","d">>,
       <<"c","o","u","n","t">> >>

COMMON_LABELS ==
    <<"Mephisto", "Travincal", "Baal", "MF", "Chaos", "Pindleskin", "Countess">>

\* MIN_QUANT = 0.1 and MAX_QUANT = 0.9, in tenths
QUANT_DEN == 10
MIN_QUANT == 1
MAX_QUANT == 9
MIN_RUNS == 10

----------------------------------------------------------------------------
\* Sequences and arithmetic.

RECURSIVE SumSeq(_)
SumSeq(s) == IF s = <<>> THEN 0 ELSE Head(s) + SumSeq(Tail(s))

abs(x) == IF x < 0 THEN 0 - x ELSE x

\* s with x inserted before the first element greater than x
RECURSIVE Insert(_, _)
Insert(s, x) ==
    IF s = <<>> THEN <<x>>
    ELSE IF x <= Head(s) THEN <<x>> \o s
    ELSE <<Head(s)>> \o Insert(Tail(s), x)

\* sorted(s) for a sequence of integers
RECURSIVE sorted(_)
sorted(s) == IF s = <<>> THEN <<>> ELSE Insert(sorted(Tail(s)), Head(s))

\* [f(x) for x in s if p(x)] is written SelectSeq and a map; the slice s[a:b]
\* with 0 <= a, b <= Len(s) (Python indices)
Slice(s, a, b) == IF b <= a THEN <<>> ELSE SubSeq(s, a + 1, b)

----------------------------------------------------------------------------
\* run_type (infobot.py 337-351).

UPPER == <<"A","B","C","D","E","F","G","H","I","J","K","L","M",
           "N","O","P","Q","R","S","T","U","V","W","X","Y","Z">>
LOWER == <<"a","b","c","d","e","f","g","h","i","j","k","l","m",
           "n","o","p","q","r","s","t","u","v","w","x","y","z">>
DIGITS == {"0","1","2","3","4","5","6","7","8","9"}

\* the lower-case letter of every upper-case letter
LowerOf == [c \in {UPPER[i] : i \in 1..Len(UPPER)} |->
               LOWER[CHOOSE i \in 1..Len(UPPER) : UPPER[i] = c]]

LowerChar(c) == IF c \in DOMAIN LowerOf THEN LowerOf[c] ELSE c

\* str.lower()
lower(name) == [i \in 1..Len(name) |-> LowerChar(name[i])]

\* token occurs in name at position i (1-based)
MatchesAt(name, token, i) ==
    /\ i + Len(token) - 1 <= Len(name)
    /\ \A k \in 1..Len(token) : name[i + k - 1] = token[k]

\* positions at which some known token occurs
CommonHits(name) ==
    {i \in 1..Len(name) : \E t \in 1..Len(COMMON_TOKENS) : MatchesAt(name, COMMON_TOKENS[t], i)}

\* the first alternative of COMMON_PAT that matches at position i
TokenAt(name, i) ==
    COMMON_TOKENS[CHOOSE u \in 1..Len(COMMON_TOKENS) :
        /\ MatchesAt(name, COMMON_TOKENS[u], i)
        /\ \A w \in 1..(u - 1) : ~MatchesAt(name, COMMON_TOKENS[w], i)]

\* the match at the leftmost of the positions hits; <<>> when there is none
LeftmostToken(name, hits) ==
    IF hits = {} THEN <<>>
    ELSE TokenAt(name, CHOOSE p \in hits : \A r \in hits : p <= r)

\* COMMON_PAT.search(name): group 1 of the leftmost match, <<>> for no match
COMMON_PAT_search(name) == LeftmostToken(name, CommonHits(name))

\* length of the leading run of non-digits
RECURSIVE NonDigitPrefix(_)
NonDigitPrefix(name) ==
    IF name = <<>> \/ Head(name) \in DIGITS THEN 0
    ELSE 1 + NonDigitPrefix(Tail(name))

\* '([^\d]+)\d' anchored at the start, n being the length of the leading
\* run of non-digits: group 1, or <<>> when there is no match
PrefixBeforeDigit(name, n) ==
    IF n >= 1 /\ n < Len(name) THEN SubSeq(name, 1, n) ELSE <<>>

\* CUSTOM_PAT.match(name)
CUSTOM_PAT_match(name) == PrefixBeforeDigit(name, NonDigitPrefix(name))

\* the return statements of run_type, given the groups of the two matches
\* (custom is looked at only when the first search fails)
matched_type(gamename, common, custom) ==
    IF common # <<>> THEN common
    ELSE IF custom # <<>> THEN custom
    ELSE gamename

\* run_type with lowered = gamename.lower()
type_of_lowered(gamename, lowered) ==
    matched_type(gamename, COMMON_PAT_search(lowered), CUSTOM_PAT_match(lowered))

run_type(gamename) == type_of_lowered(gamename, lower(gamename))

\* COMMON_RUNS.get(rtype, rtype)
Label(rtype) ==
    IF \E t \in 1..Len(COMMON_TOKENS) : COMMON_TOKENS[t] = rtype
    THEN COMMON_LABELS[CHOOSE t \in 1..Len(COMMON_TOKENS) : COMMON_TOKENS[t] = rtype]
    ELSE rtype

----------------------------------------------------------------------------
\* Run (infobot.py 181-201) and the clock (infobot.py 330-335).

\* mkdt: the stored timestamp without its fraction of a second
mkdt(dtstr) == IF dtstr = None THEN None ELSE dtstr \div TicksPerSec

\* Run(*row)
Run(row) ==
    [id |-> row.id, group_id |-> row.group_id, gamename |-> row.gamename,
     start_dt |-> mkdt(row.start_dt), end_dt |-> mkdt(row.end_dt)]

\* Run.seconds
seconds(run) ==
    IF run.end_dt # None THEN abs(run.end_dt - run.start_dt) ELSE None

\* The game names of the specifications: two names of two run types, and
\* every name of at most MaxNameLen characters over a small alphabet.
Mf1 == <<"M", "f", "1">>
X1  == <<"x", "1">>
GameNames == {Mf1, X1}
TypeAlphabet == {"m", "f", "M", "x", "X", "1"}
TypeNames == UNION {[1..n -> TypeAlphabet] : n \in 1..MaxNameLen}
ModelNames == {g : g \in GameNames \cup TypeNames}

\* run_type is a pure function: its value for each name of the
\* specifications is computed once
run_types == [g \in ModelNames |-> run_type(g)]

\* Run.type
type(run) == run_types[run.gamename]

----------------------------------------------------------------------------
\* The tables (infobot.py 214-325).  users is the users table (the id of a
\* row is its index), run_groups the user_id column of run_groups, db the
\* rows of runs.

\* get_user: the id of username, the id add_user gives it when it is new
get_user(us, username) ==
    IF \E i \in 1..Len(us) : us[i] = username
    THEN CHOOSE i \in 1..Len(us) : us[i] = username
    ELSE Len(us) + 1

\* the users table after get_user(username)
add_user(us, username) ==
    IF \E i \in 1..Len(us) : us[i] = username THEN us ELSE Append(us, username)

\* get_group: the newest group of user_id, the id add_group gives when none
get_group(rg, user_id) ==
    IF \E i \in 1..Len(rg) : rg[i] = user_id
    THEN CHOOSE i \in 1..Len(rg) :
           rg[i] = user_id /\ \A k \in 1..Len(rg) : rg[k] = user_id => k <= i
    ELSE Len(rg) + 1

\* the run_groups table after get_group(user_id)
add_group(rg, user_id) ==
    IF \E i \in 1..Len(rg) : rg[i] = user_id THEN rg ELSE Append(rg, user_id)

\* start_run: insert into runs (group_id, gamename, start_dt)
start_run(db, group_id, gamename, now) ==
    Append(db, [id |-> Len(db) + 1, group_id |-> group_id, gamename |-> gamename,
                start_dt |-> now, end_dt |-> None])

\* the row that "order by start_dt desc" puts first (no two rows of the
\* model have the same start_dt: the clock advances between two inserts)
FirstByStartDesc(rows) ==
    CHOOSE r \in rows : \A o \in rows :
        \/ o.start_dt < r.start_dt
        \/ (o.start_dt = r.start_dt /\ r.id <= o.id)

RECURSIVE OrderByStartDesc(_)
RestByStartDesc(rows, first) == <<first>> \o OrderByStartDesc(rows \ {first})

\* "order by start_dt desc" over a set of rows
OrderByStartDesc(rows) ==
    IF rows = {} THEN <<>> ELSE RestByStartDesc(rows, FirstByStartDesc(rows))

\* select ... from runs where group_id = ? order by start_dt desc
SelectGroupRows(db, group_id) ==
    OrderByStartDesc({db[i] : i \in {k \in 1..Len(db) : db[k].group_id = group_id}})

\* cursor.fetchone() as get_run turns it into a Run; <<>> stands for None,
\* <<run>> for the Run
fetchone(rows) == IF rows = <<>> THEN <<>> ELSE <<Run(Head(rows))>>

\* get_run: the first row of the group by start_dt desc, open or not
get_run(db, group_id) == fetchone(SelectGroupRows(db, group_id))

\* update runs set end_dt = now where id = run.id, when there is a run
update_end_dt(db, run, now) ==
    IF run = <<>> THEN db ELSE [db EXCEPT ![run[1].id].end_dt = now]

\* stop_run
stop_run(db, group_id, now) == update_end_dt(db, get_run(db, group_id), now)

\* map(lambda row: Run(*row), cursor)
RunsOf(rows) == [i \in 1..Len(rows) |-> Run(rows[i])]

\* get_group_runs
get_group_runs(db, group_id) == RunsOf(SelectGroupRows(db, group_id))

\* the user name joined to a row of runs
owner(us, rg, row) == us[rg[row.group_id]]

\* get_everybodys_runs: username -> its runs, over the users that have runs
get_everybodys_runs(us, rg, db) ==
    [u \in {owner(us, rg, db[i]) : i \in 1..Len(db)} |->
        RunsOf(SelectSeq(db, LAMBDA row : owner(us, rg, row) = u))]

----------------------------------------------------------------------------
\* quantile(x, q, 7, True) of the quantile module: for n sorted values the
\* index h = (n-1)*q, interpolated linearly between the values at floor(h)
\* and ceil(h).  q is given in tenths and the result is QUANT_DEN times the
\* quantile, so that it stays an integer.
quantile(x, q) ==
    LET h == (Len(x) - 1) * q
        j == h \div QUANT_DEN
        g == h % QUANT_DEN
    IN  IF g = 0 THEN QUANT_DEN * x[j + 1]
        ELSE QUANT_DEN * x[j + 1] + (x[j + 2] - x[j + 1]) * g

----------------------------------------------------------------------------
\* get_stats (infobot.py 98-148) and is_outlier (infobot.py 360-361).
\* rs is the result of get_group_runs: Run objects by start_dt descending.

is_outlier_upper_only(x, bounds) == QUANT_DEN * x > bounds.max

is_outlier(x, bounds) ==
    QUANT_DEN * x < bounds.min \/ QUANT_DEN * x > bounds.max

\* first pass: the run types that get a list, and the list of each; only a
\* run with an end_dt is appended
stat_types(rs) == {type(rs[i]) : i \in {k \in 1..Len(rs) : rs[k].end_dt # None}}

\* runs_by_type[rtype]
runs_by_type(rs, rtype) ==
    SelectSeq(rs, LAMBDA run : run.end_dt # None /\ type(run) = rtype)

last_oldest(rruns) == seconds(rruns[Len(rruns)])

\* first pass: last[rtype] is set by the first run of the type that has an
\* end_dt, and never again; rruns is runs_by_type[rtype]
last(rruns) == seconds(Head(rruns))

\* [r.seconds() for r in runs]
SecondsOf(rruns) == [i \in 1..Len(rruns) |-> seconds(rruns[i])]

unsorted_secs(rruns) == SecondsOf(SelectSeq(rruns, LAMBDA r : r.end_dt # None))

\* sorted_secs of the second pass
sorted_secs(rruns) == sorted(SecondsOf(SelectSeq(rruns, LAMBDA r : r.end_dt # None)))

\* second pass: boundaries[rtype]
boundaries(rruns) ==
    [min |-> quantile(sorted_secs(rruns), MIN_QUANT),
     max |-> quantile(sorted_secs(rruns), MAX_QUANT)]

counted_always_trimmed(nruns, secs, bounds) == ~is_outlier(secs, bounds)

\* third pass: whether a run with an end_dt is counted
counted(nruns, secs, bounds) ==
    nruns < MIN_RUNS \/ ~is_outlier(secs, bounds)

\* stats[rtype], kept being the seconds of the runs counted
stats_entry(kept, nruns) ==
    [count |-> Len(kept), secs |-> SumSeq(kept), total |-> nruns]

\* third pass over runs_by_type[rtype], given boundaries[rtype]
third_pass(rruns, bounds) ==
    stats_entry(SecondsOf(SelectSeq(rruns, LAMBDA run :
                    run.end_dt # None /\ counted(Len(rruns), seconds(run), bounds))),
                Len(rruns))

\* stats[rtype] after the third pass
stats(rruns) == third_pass(rruns, boundaries(rruns))

\* output[rtype]
output_entry(st, lst) ==
    [avg |-> st.secs \div st.count, count |-> st.total, last |-> lst]

\* the output dictionary: the types with stats['count'] > 0
output(rs) ==
    [rtype \in {t \in stat_types(rs) : stats(runs_by_type(rs, t)).count > 0} |->
        output_entry(stats(runs_by_type(rs, rtype)), last(runs_by_type(rs, rtype)))]

get_stats(db, group_id) == output(get_group_runs(db, group_id))

\* the two return statements of start_response
response_for(rtype, st) ==
    IF rtype \in DOMAIN st
    THEN [kind |-> "run", label |-> Label(rtype), count |-> st[rtype].count,
          avg |-> st[rtype].avg, last |-> st[rtype].last]
    ELSE [kind |-> "first run", label |-> Label(rtype)]

\* start_response (infobot.py 169-177)
start_response(db, group_id, gamename) ==
    response_for(run_type(gamename), get_stats(db, group_id))

----------------------------------------------------------------------------
\* leaderboard (infobot.py 365-386).  everybody is the result of
\* get_everybodys_runs.

\* the user names the model uses, in the order Python compares them
USERNAMES == <<"alice", "bob">>

UserRank(u) == CHOOSE i \in 1..Len(USERNAMES) : USERNAMES[i] = u

\* tuple comparison of (count, average, user): a > b
TupleGreater(a, b) ==
    \/ a[1] > b[1]
    \/ a[1] = b[1] /\ a[2] > b[2]
    \/ a[1] = b[1] /\ a[2] = b[2] /\ UserRank(a[3]) > UserRank(b[3])

\* the greatest of a set of distinct tuples
GreatestTuple(entries) ==
    CHOOSE e \in entries : \A o \in entries \ {e} : TupleGreater(e, o)

RECURSIVE SortReverse(_)
RestReverse(entries, top) == <<top>> \o SortReverse(entries \ {top})

\* list.sort(reverse=True) of a set of distinct tuples
SortReverse(entries) ==
    IF entries = {} THEN <<>> ELSE RestReverse(entries, GreatestTuple(entries))

\* the keys of types for one user
user_type_set(user_runs) == {type(user_runs[i]) : i \in 1..Len(user_runs)}

\* types[rtype] of one user: every run of the type, open or not
user_types(user_runs, rtype) == SelectSeq(user_runs, LAMBDA r : type(r) = rtype)

\* all_secs, truns being types[rtype]: None sorts before every number
all_secs(truns) == sorted(SecondsOf(truns))

\* considered = filter(lambda x: x is not None, all_secs)
considered(secs) == SelectSeq(secs, LAMBDA x : x # None)

\* x1 = int(0.1 * nconsidered), x2 = int(0.9 * nconsidered)
trim_lo(nconsidered) == nconsidered \div 10
trim_hi(nconsidered) == (9 * nconsidered) \div 10

\* considered[x1:x2]
trimmed(cons) == Slice(cons, trim_lo(Len(cons)), trim_hi(Len(cons)))

\* whether the user gets an entry for the type: nconsidered > 0
listed(truns) == Len(considered(all_secs(truns))) > 0

\* (count, total / nconsidered, user)
entry_of(user, secs, cons) ==
    <<Len(secs), SumSeq(trimmed(cons)) \div Len(cons), user>>

\* the tuple appended to top[rtype]
entry(user, truns) == entry_of(user, all_secs(truns), considered(all_secs(truns)))

\* the users that get an entry in top[rtype]
listed_users(everybody, rtype) ==
    {u \in DOMAIN everybody : listed(user_types(everybody[u], rtype))}

leaderboard(everybody) ==
    [rtype \in {t \in UNION {user_type_set(everybody[u]) : u \in DOMAIN everybody} :
                    listed_users(everybody, t) # {}} |->
        SortReverse({entry(u, user_types(everybody[u], rtype)) :
                        u \in listed_users(everybody, rtype)})]

----------------------------------------------------------------------------
\* The requests (infobot.py 56-93).

\* a notification without a quoted game name: parse_gamename gives None
NoName == <<>>

Init ==
    /\ users = <<>>
    /\ run_groups = <<>>
    /\ runs = <<>>
    /\ clock = 0
    /\ response = [kind |-> "none"]

\* the body of post() once the user and the group are known
post_for(group_id, status, gamename, now) ==
    IF status = "entered" /\ gamename # NoName
    THEN /\ runs' = start_run(runs, group_id, gamename, now)
         /\ clock' = now
         /\ response' = start_response(runs', group_id, gamename)
    ELSE IF status = "left"
    THEN /\ runs' = stop_run(runs, group_id, now)
         /\ clock' = now
         /\ response' = [kind |-> "empty"]
    ELSE /\ UNCHANGED <<runs, clock>>
         /\ response' = [kind |-> "empty"]

\* get_user, then get_group, then the rest of the handler
post_as(user_id, status, gamename, now) ==
    /\ run_groups' = add_group(run_groups, user_id)
    /\ post_for(get_group(run_groups, user_id), status, gamename, now)

\* post() for the message (username, status, gamename), served dt ticks
\* after the previous request
post(username, status, gamename, dt) ==
    /\ users' = add_user(users, username)
    /\ post_as(get_user(users, username), status, gamename, clock + dt)

\* the page of stats(username), the group being known
stats_of_group(group_id) ==
    response' = [kind |-> "stats", group_id |-> group_id,
                 stats |-> get_stats(runs, group_id)]

stats_as(user_id) ==
    /\ run_groups' = add_group(run_groups, user_id)
    /\ stats_of_group(get_group(run_groups, user_id))

\* stats(username): GET /<username>/
stats_page(username) ==
    /\ users' = add_user(users, username)
    /\ stats_as(get_user(users, username))
    /\ UNCHANGED <<runs, clock>>

\* the weekly leaderboard: leaderboard applied to get_everybodys_runs()
leaderboard_page ==
    /\ response' = [kind |-> "leaderboard",
                    top |-> leaderboard(get_everybodys_runs(users, run_groups, runs))]
    /\ UNCHANGED <<users, run_groups, runs, clock>>

----------------------------------------------------------------------------
\* Spec: two users, game names of two run types, requests in any order.

Usernames == {"alice", "bob"}

MaxGap == 2
Gaps == 1..MaxGap

Entered ==
    \E u \in Usernames, g \in GameNames \cup {NoName}, dt \in Gaps :
        /\ clock + dt <= MaxClock
        /\ g # NoName => Len(runs) < MaxRuns
        /\ post(u, "entered", g, dt)

Left ==
    \E u \in Usernames, dt \in Gaps :
        /\ clock + dt <= MaxClock
        /\ post(u, "left", NoName, dt)

StatsPage == \E u \in Usernames : stats_page(u)

LeaderboardPage == leaderboard_page

Next == Entered \/ Left \/ StatsPage \/ LeaderboardPage

Spec == Init /\ [][Next]_vars

----------------------------------------------------------------------------
\* SpecTrim: one user plays one run type often enough for the quantile
\* boundaries to apply (MIN_RUNS closed runs and more).  The log is empty at
\* first, or holds one closed run of another type.  A game is entered one
\* tick after the previous request and left one or four ticks later; the
\* user leaves only a game that is open.

TrimGaps == {1, 4}

TrimInit ==
    \/ Init
    \/ /\ users = <<"alice">>
       /\ run_groups = <<1>>
       /\ runs = <<[id |-> 1, group_id |-> 1, gamename |-> X1, start_dt |-> 1, end_dt |-> 8]>>
       /\ clock = 8
       /\ response = [kind |-> "empty"]

latest_is_open(db) == db # <<>> /\ db[Len(db)].end_dt = None

TrimEntered ==
    /\ Len(runs) < TrimRuns
    /\ ~latest_is_open(runs)
    /\ post("alice", "entered", Mf1, 1)

TrimLeft ==
    \E dt \in TrimGaps :
        /\ latest_is_open(runs)
        /\ post("alice", "left", NoName, dt)

TrimStats == stats_page("alice")

TrimNext == TrimEntered \/ TrimLeft \/ TrimStats

SpecTrim == TrimInit /\ [][TrimNext]_vars

----------------------------------------------------------------------------
\* SpecScenario: twelve runs of one type with the durations of SCENARIO, in
\* this order, each entered one or two ticks after the previous request.

SCENARIO == <<100, 105, 98, 110, 102, 99, 101, 5000, 103, 97, 104, 6>>

ScenGaps == {1, 2}

ScenEntered ==
    \E dt \in ScenGaps :
        /\ Len(runs) < Len(SCENARIO)
        /\ ~latest_is_open(runs)
        /\ post("alice", "entered", Mf1, dt)

ScenLeft ==
    /\ latest_is_open(runs)
    /\ post("alice", "left", NoName, SCENARIO[Len(runs)] * TicksPerSec)

ScenStats == stats_page("alice")

ScenNext == ScenEntered \/ ScenLeft \/ ScenStats

SpecScenario == Init /\ [][ScenNext]_vars

----------------------------------------------------------------------------
\* SpecType: one game of any name of TypeNames is entered, left, and the
\* user's statistics are shown.

TypeEntered ==
    \E g \in TypeNames :
        /\ runs = <<>>
        /\ post("alice", "entered", g, 1)

TypeLeft ==
    /\ latest_is_open(runs)
    /\ post("alice", "left", NoName, TicksPerSec)

TypeStats == stats_page("alice")

TypeNext == TypeEntered \/ TypeLeft \/ TypeStats

SpecType == Init /\ [][TypeNext]_vars

----------------------------------------------------------------------------
\* What the properties are stated with: the rows of the runs table as they
\* are stored, apart from the lists get_stats and leaderboard build.

GroupRows(group_id) == {runs[i] : i \in {k \in 1..Len(runs) : runs[k].group_id = group_id}}

RowType(row) == type(Run(row))

RowSecs(row) == seconds(Run(row))

TypeRows(group_id, rtype) == {row \in GroupRows(group_id) : RowType(row) = rtype}

ClosedRows(group_id, rtype) == {row \in TypeRows(group_id, rtype) : row.end_dt # None}

OpenRows(group_id) == {row \in GroupRows(group_id) : row.end_dt = None}

LatestOf(rows) == CHOOSE row \in rows : \A o \in rows : o.start_dt <= row.start_dt

RECURSIVE SumSecs(_)
SumSecs(rows) ==
    IF rows = {} THEN 0
    ELSE LET row == CHOOSE r \in rows : TRUE
         IN  RowSecs(row) + SumSecs(rows \ {row})

RECURSIVE SecsOf(_)
SecsOf(rows) ==
    IF rows = {} THEN <<>>
    ELSE LET row == CHOOSE r \in rows : TRUE
         IN  <<RowSecs(row)>> \o SecsOf(rows \ {row})

\* the closed rows whose duration d has quantile(0.1) <= d <= quantile(0.9)
\* over the sorted durations of rows
WithinQuantiles(rows) ==
    LET ss == sorted(SecsOf(rows))
    IN  {row \in rows : /\ quantile(ss, MIN_QUANT) <= QUANT_DEN * RowSecs(row)
                        /\ QUANT_DEN * RowSecs(row) <= quantile(ss, MAX_QUANT)}

ShownTypes == {RowType(row) : row \in GroupRows(response.group_id)}

ShownRuns(rtype) == runs_by_type(get_group_runs(runs, response.group_id), rtype)

ShownStats(rtype) == stats(ShownRuns(rtype))

----------------------------------------------------------------------------
\* C1: a run that has an end_dt is never changed again: no later request
\* changes its end_dt or any other column.
C1_ClosedRunNeverChanges ==
    [][\A i \in 1..Len(runs) : runs[i].end_dt # None => runs'[i] = runs[i]]_vars

\* C2: when a 'left' message is processed for a group that has an open run,
\* the open run of the group with the latest start_dt has an end_dt afterwards.
C2_LeftClosesLatestOpenRun ==
    [][\A u \in Usernames, dt \in Gaps :
          LET group_id == get_group(run_groups, get_user(users, u))
          IN  (post(u, "left", NoName, dt) /\ OpenRows(group_id) # {})
                 => runs'[LatestOf(OpenRows(group_id)).id].end_dt # None]_vars

\* C3: for every run type in the statistics, 'count' is the number of runs
\* of that type of the group, the open ones included.
C3_CountIncludesOpenRuns ==
    response.kind = "stats" =>
        \A rtype \in DOMAIN response.stats :
            response.stats[rtype].count = Cardinality(TypeRows(response.group_id, rtype))

ScenarioShown ==
    /\ response.kind = "stats"
    /\ Len(runs) = Len(SCENARIO)
    /\ \A i \in 1..Len(runs) : runs[i].end_dt # None

\* the durations of the runs of the type that the third pass does not count
ExcludedSecs(rtype) ==
    LET rruns == ShownRuns(rtype)
    IN  {seconds(rruns[i]) : i \in {k \in 1..Len(rruns) :
            ~counted(Len(rruns), seconds(rruns[k]), boundaries(rruns))}}

\* C5 as stated: of the twelve runs of SCENARIO exactly the 5000 s and the
\* 6 s run are excluded, and the average is taken over the other ten.
C5_ScenarioExcludesTwo ==
    ScenarioShown =>
        /\ ExcludedSecs(run_type(Mf1)) = {5000, 6}
        /\ ShownStats(run_type(Mf1)).count = 10
        /\ ShownStats(run_type(Mf1)).secs = 1019

\* C5 as amended: of the twelve runs of SCENARIO the 6 s, 97 s, 110 s and
\* 5000 s runs are excluded (the boundaries are 97.1 and 109.5), and the
\* average is taken over the other eight: 812 / 8, reported as 101.
C5_ScenarioExcludesFour ==
    ScenarioShown =>
        /\ boundaries(ShownRuns(run_type(Mf1))) = [min |-> 971, max |-> 1095]
        /\ ExcludedSecs(run_type(Mf1)) = {6, 97, 110, 5000}
        /\ ShownStats(run_type(Mf1)).count = 8
        /\ ShownStats(run_type(Mf1)).secs = 812
        /\ response.stats[run_type(Mf1)].avg = 101

\* C5 witness: the statistics of the whole scenario are shown, with the
\* durations as given.
C5_Witness ==
    /\ ScenarioShown
    /\ \A i \in 1..Len(runs) : RowSecs(runs[i]) = SCENARIO[i]

\* C6: for a type with at least one and fewer than MIN_RUNS closed runs,
\* the type is in the output, every closed run is counted, and 'avg' is
\* taken over all the closed durations.
C6_FewRunsAllIncluded ==
    response.kind = "stats" =>
        \A rtype \in ShownTypes :
            LET closed == ClosedRows(response.group_id, rtype)
            IN  (Cardinality(closed) >= 1 /\ Cardinality(closed) < MIN_RUNS) =>
                    /\ rtype \in DOMAIN response.stats
                    /\ ShownStats(rtype).count = Cardinality(closed)
                    /\ ShownStats(rtype).secs = SumSecs(closed)
                    /\ response.stats[rtype].avg = SumSecs(closed) \div Cardinality(closed)

\* C6 witness: statistics of a type with fewer than MIN_RUNS closed runs,
\* some of them outside the quantile boundaries of their durations.
C6_Witness ==
    /\ response.kind = "stats"
    /\ \E rtype \in ShownTypes :
          LET closed == ClosedRows(response.group_id, rtype)
          IN  /\ Cardinality(closed) >= 3
              /\ Cardinality(closed) < MIN_RUNS
              /\ WithinQuantiles(closed) # closed

\* C7: for every type in the output, 'last' is the duration of the closed
\* run of the type with the latest start_dt.
C7_LastIsLatestClosedRun ==
    response.kind = "stats" =>
        \A rtype \in DOMAIN response.stats :
            response.stats[rtype].last
                = RowSecs(LatestOf(ClosedRows(response.group_id, rtype)))

\* C7 witness: the latest closed run of a type is outside the quantile
\* boundaries that apply, and a run of the type started later is open.
C7_Witness ==
    /\ response.kind = "stats"
    /\ \E rtype \in DOMAIN response.stats :
          LET closed == ClosedRows(response.group_id, rtype)
              latest == LatestOf(closed)
          IN  /\ Cardinality(closed) >= MIN_RUNS
              /\ latest \notin WithinQuantiles(closed)
              /\ \E row \in TypeRows(response.group_id, rtype) :
                    row.end_dt = None /\ row.start_dt > latest.start_dt
              /\ \E row \in closed : RowSecs(row) # RowSecs(latest)

\* C8: run_type gives a game name the type of its lower-cased form, and the
\* lower-cased name itself when neither pattern matches.
C8_TypeIgnoresCase ==
    \A i \in 1..Len(runs) :
        LET gamename == runs[i].gamename
        IN  /\ run_type(gamename) = run_type(lower(gamename))
            /\ (/\ COMMON_PAT_search(lower(gamename)) = <<>>
                /\ CUSTOM_PAT_match(lower(gamename)) = <<>>)
                  => run_type(gamename) = lower(gamename)

\* the slice considered[x1:x2] of a user's closed durations of a type
TrimmedSecs(user, rtype) ==
    trimmed(considered(all_secs(
        user_types(get_everybodys_runs(users, run_groups, runs)[user], rtype))))

\* C9: a user is listed under a type only if the trimmed slice of the
\* user's closed durations of the type is not empty.
C9_ListedOnlyWithSamples ==
    response.kind = "leaderboard" =>
        \A rtype \in DOMAIN response.top :
            \A k \in 1..Len(response.top[rtype]) :
                TrimmedSecs(response.top[rtype][k][3], rtype) # <<>>

\* C10: the average of a listed user is the sum of the durations left by
\* the trim divided by the number of durations left.
C10_AverageOfMiddle ==
    response.kind = "leaderboard" =>
        \A rtype \in DOMAIN response.top :
            \A k \in 1..Len(response.top[rtype]) :
                LET left == TrimmedSecs(response.top[rtype][k][3], rtype)
                IN  left # <<>> =>
                        response.top[rtype][k][2] = SumSeq(left) \div Len(left)

====
